---------------------------- MODULE Spec2Model ----------------------------
(***************************************************************************)
(* Model of Criterion.__call__ (models/detectors/yolov8/loss.py): the      *)
(* per-image label assignment loop, the stacking of its results, the       *)
(* world-size-aware normalizer with its collective sum, and the three      *)
(* loss terms.                                                             *)
(*                                                                         *)
(* Numbers.  The code computes in floating point; the model computes the   *)
(* same expressions exactly on grids:                                      *)
(*   - a target score is an integer number of 1/ScoreOne (ScoreOne is 1.0),*)
(*   - a loss sum is an integer number of 1/(100*ScoreOne),                *)
(*   - the normalizer and the returned losses are fractions [num, den].    *)
(* Tensors.  A tensor is a sequence (1-based; flat index b*M+m of the code *)
(* is position b*M+m+1).  A prediction row is represented by its position  *)
(* <<b, m>> in the input tensor; its numeric content is a function of that *)
(* position (ClsLogit, PredBox, RegLogit).                                 *)
(***************************************************************************)
EXTENDS Integers, Sequences, FiniteSets, TLC

(* --------------------------- bounds ----------------------------------- *)
MaxBatch == 2
MaxAnchors == 2
NumClasses == 2
MaxWorkers == 2
ScoreOne == 2

(* --------------------------- small helpers ---------------------------- *)
Max2(a, b) == IF a >= b THEN a ELSE b
Min2(a, b) == IF a <= b THEN a ELSE b

RECURSIVE SumSeq(_)
SumSeq(s) == IF s = <<>> THEN 0 ELSE Head(s) + SumSeq(Tail(s))

RECURSIVE Flatten(_)
Flatten(ss) == IF ss = <<>> THEN <<>> ELSE Head(ss) \o Flatten(Tail(ss))

SetMax(S) == CHOOSE x \in S : \A y \in S : y <= x

(* truncation toward zero, as Tensor.to(torch.long) does *)
Trunc100(v) == IF v >= 0 THEN v \div 100 ELSE -((-v) \div 100)

(* exact fractions *)
Frac(n, d) == [num |-> n, den |-> d]
FracScale(f, k) == [num |-> f.num * k, den |-> f.den]
FracAdd(f, g) ==
    IF f.den = g.den THEN [num |-> f.num + g.num, den |-> f.den]
    ELSE [num |-> f.num * g.den + g.num * f.den, den |-> f.den * g.den]
FracEq(f, g) == f.num * g.den = g.num * f.den
FracIsZero(f) == f.num = 0

Null == "null"

(* ------------------- the inputs the call is given --------------------- *)
(* outputs['anchors'] / outputs['stride_tensor']: two pyramid levels, one   *)
(* anchor at stride 2 and the others at stride 4 (cell centres).           *)
AnchorPoint(m) == IF m = 1 THEN <<1, 1>> ELSE <<4 * (m - 1) - 2, 2>>
Stride(m) == IF m = 1 THEN 2 ELSE 4

(* a list of per-scale pieces of the index range 1..n: scale one holds the *)
(* first entry, scale two the rest                                         *)
PerScale(n) == << [i \in 1..Min2(n, 1) |-> i], [i \in 1..Max2(n - 1, 0) |-> i + 1] >>

(* the outputs mapping of the detection head: each entry a list over the   *)
(* scales; a prediction tensor is [b -> rows], a row is its position <<b,m>>*)
MakeOutputs(bs, nAnc, nCls, nReg, nBox) ==
    LET preds(n) == [k \in 1..2 |-> [b \in 1..bs |-> [i \in 1..Len(PerScale(n)[k]) |-> <<b, PerScale(n)[k][i]>>]]]
    IN  [ pred_cls |-> preds(nCls),
          pred_reg |-> preds(nReg),
          pred_box |-> preds(nBox),
          anchors  |-> [k \in 1..2 |-> [i \in 1..Len(PerScale(nAnc)[k]) |-> AnchorPoint(PerScale(nAnc)[k][i])]],
          stride_tensor |-> [k \in 1..2 |-> [i \in 1..Len(PerScale(nAnc)[k]) |-> Stride(PerScale(nAnc)[k][i])]] ]

(* numeric content of the prediction rows *)
ClsLogit(row, c) == ((row[1] + 2 * row[2] + c) % 3) - 1
PredBox(row) ==
    LET a == AnchorPoint(row[2])
    IN  <<a[1] - row[1], a[2] - row[1], a[1] + row[1], a[2] + row[1]>>
RegLogit(row, side, bin) == 0

(* ground truth of one image: the boxes (x1, y1, x2, y2) and labels *)
ZeroBox == <<0, 0, 0, 0>>
NegBox == <<0 - 2, 0 - 2, 0, 0>>
RealBox == <<0, 0, 4, 4>>
Target(labels, boxes) == [labels |-> labels, boxes |-> boxes]
TargetChoices ==
    { Target(<<>>, <<>>),
      Target(<<0>>, <<ZeroBox>>),
      Target(<<0>>, <<NegBox>>),
      Target(<<0, NumClasses - 1>>, <<ZeroBox, RealBox>>),
      Target(<<0, 0>>, <<ZeroBox, ZeroBox>>) }
DistTargetChoices ==
    { Target(<<>>, <<>>), Target(<<0>>, <<RealBox>>) }

(* the shapes of one call: every tensor over the same M anchors, or one of *)
(* the three prediction tensors concatenated to another anchor count (a    *)
(* scale too many or too few)                                              *)
OtherCount(m) == IF m = 1 THEN 2 ELSE m - 1
ShapeChoices ==
    LET Ms == 1..MaxAnchors
    IN  { [nAnc |-> m, nCls |-> m, nReg |-> m, nBox |-> m] : m \in Ms }
        \cup { [nAnc |-> m, nCls |-> OtherCount(m), nReg |-> m, nBox |-> m] : m \in Ms }
        \cup { [nAnc |-> m, nCls |-> m, nReg |-> OtherCount(m), nBox |-> m] : m \in Ms }
        \cup { [nAnc |-> m, nCls |-> m, nReg |-> m, nBox |-> OtherCount(m)] : m \in Ms }

(* the configuration mapping handed to Criterion.__init__ *)
ConfigChoices ==
    { [reg_max |-> r, loss_cls_weight |-> 1, loss_box_weight |-> 2, loss_dfl_weight |-> 3] : r \in {1, 2} }

(* Criterion.__init__ *)
CriterionInit(c, num_classes) ==
    [ num_classes     |-> num_classes,
      reg_max         |-> c.reg_max,
      use_dfl         |-> (c.reg_max > 1),
      loss_cls_weight |-> c.loss_cls_weight,
      loss_box_weight |-> c.loss_box_weight,
      loss_dfl_weight |-> c.loss_dfl_weight ]

(* --------------------- tensor library operations ---------------------- *)
(* torch.cat(list, dim=1) of per-scale tensors [b -> rows] *)
CatDim1(ts) == [b \in 1..Len(ts[1]) |-> Flatten([k \in 1..Len(ts) |-> ts[k][b]])]
(* torch.cat(list, dim=0) followed by .view(-1, ...): image after image *)
CatDim0(ts) == Flatten(ts)
(* torch.cat(list, 0) needs the pieces to agree in every other dimension *)
CatDim0Ok(ts) == \A i, j \in 1..Len(ts) : Len(ts[i]) = Len(ts[j])
(* t[None].repeat(bs, 1, 1).view(-1, k): the whole of t, bs times over *)
(* variant: repeats every row bs times in place *)
RepeatBatch_Interleave(t, bs) == Flatten([m \in 1..Len(t) |-> [b \in 1..bs |-> t[m]]])

RepeatBatch(t, bs) == Flatten([b \in 1..bs |-> t])

(* t[mask]: boolean-mask indexing; the mask must be as long as t *)
(* variant: no length check *)
MaskOk_Any(t, mask) == TRUE

MaskOk(t, mask) == Len(t) = Len(mask)
(* variant: keeps every row *)
MaskSelect_All(t, mask) == t

RECURSIVE MaskSelect(_, _)
MaskSelect(t, mask) ==
    IF t = <<>> \/ mask = <<>> THEN <<>>
    ELSE (IF Head(mask) THEN <<Head(t)>> ELSE <<>>) \o MaskSelect(Tail(t), Tail(mask))

(* softplus(-|x|) = log(1 + exp(-|x|)) in hundredths, for |x| in {0, 1} *)
Softplus100(a) == IF a = 0 THEN 69 ELSE 31
(* F.binary_cross_entropy_with_logits, one element: max(x,0) - x*t +       *)
(* log(1+exp(-|x|)), in units of 1/(100*ScoreOne); t in units of 1/ScoreOne *)
Bce(x, t) == 100 * Max2(x, 0) * ScoreOne - 100 * x * t + Softplus100(IF x < 0 THEN -x ELSE x) * ScoreOne
(* ... which refuses a target whose size differs from the input's *)
BceShapeOk(input, target) == Len(input) = Len(target)

(* log(n) in hundredths: the log-sum-exp of n equal logits of value 0 *)
Ln100(n) == CASE n = 1 -> 0 [] n = 2 -> 69 [] n = 3 -> 110 [] n = 4 -> 139 [] OTHER -> 161
(* F.cross_entropy of one row of nbins logits against class index t, in    *)
(* hundredths; t must be a class index of the row                          *)
CrossEntropyOk(nbins, t) == t \in 0..(nbins - 1)
CrossEntropy(row, side, nbins, t) == Ln100(nbins) - 100 * RegLogit(row, side, t)

(* torch.clamp(v, lo, hi) = min(max(v, lo), hi): hi wins when lo > hi *)
Clamp(v, lo, hi) == Min2(Max2(v, lo), hi)

(* ------------------ utils.box_ops, utils.distributed ------------------ *)
(* bbox_iou(..., CIoU=True) in hundredths: IoU minus the centre-distance   *)
(* penalty; the aspect-ratio term is 0 for boxes of equal aspect ratio     *)
(* (every box compared here is a square)                                   *)
bbox_iou(p, g) ==
    LET iw == Max2(0, Min2(p[3], g[3]) - Max2(p[1], g[1]))
        ih == Max2(0, Min2(p[4], g[4]) - Max2(p[2], g[2]))
        inter == iw * ih
        union == (p[3] - p[1]) * (p[4] - p[2]) + (g[3] - g[1]) * (g[4] - g[2]) - inter
        cw == Max2(p[3], g[3]) - Min2(p[1], g[1])
        ch == Max2(p[4], g[4]) - Min2(p[2], g[2])
        c2 == cw * cw + ch * ch
        rho2x4 == (g[1] + g[3] - p[1] - p[3]) * (g[1] + g[3] - p[1] - p[3])
                  + (g[2] + g[4] - p[2] - p[4]) * (g[2] + g[4] - p[2] - p[4])
    IN  (IF union <= 0 THEN 0 ELSE (100 * inter) \div union)
        - (IF c2 = 0 THEN 0 ELSE (100 * rho2x4) \div (4 * c2))

(* bbox2dist(anchor_points, bbox, reg_max): distances left, top, right,    *)
(* bottom clamped to [0, reg_max - 0.01]; everything in hundredths         *)
bbox2dist(anchor_s, box_s, max_bin) ==
    LET raw == <<anchor_s[1] - box_s[1], anchor_s[2] - box_s[2],
                 box_s[3] - anchor_s[1], box_s[4] - anchor_s[2]>>
    IN  [k \in 1..4 |-> Clamp(raw[k], 0, 100 * max_bin - 1)]

(* the process group: is_dist_avail_and_initialized(), get_world_size() *)
is_dist_avail_and_initialized(wd) == wd.initialized
get_world_size(wd) == IF is_dist_avail_and_initialized(wd) THEN wd.size ELSE 1

(* ------------------------ TaskAlignedAssigner ------------------------- *)
(* candidate filter: the anchor point lies strictly inside the box *)
Inside(pt, box) == box[1] < pt[1] /\ pt[1] < box[3] /\ box[2] < pt[2] /\ pt[2] < box[4]

(* the soft target score of a foreground anchor, in 1/ScoreOne *)
FgScores == {1, ScoreOne}

(* what the assigner may decide for one anchor: background, or foreground  *)
(* owned by one ground truth whose box holds the anchor, with a soft score *)
AnchorChoices(pt, gt_bboxes) ==
    { [fg |-> FALSE, g |-> 0, s |-> 0] }
    \cup { [fg |-> TRUE, g |-> g, s |-> s] :
              g \in { h \in 1..Len(gt_bboxes) : Inside(pt, gt_bboxes[h]) }, s \in FgScores }

(* variant: every anchor marked foreground *)
AllBackground_Ones(n, num_classes) ==
    [ raised   |-> FALSE,
      fg_mask  |-> [m \in 1..n |-> TRUE],
      gt_score |-> [m \in 1..n |-> [c \in 1..num_classes |-> 0]],
      gt_box   |-> [m \in 1..n |-> ZeroBox] ]

AllBackground(n, num_classes) ==
    [ raised   |-> FALSE,
      fg_mask  |-> [m \in 1..n |-> FALSE],
      gt_score |-> [m \in 1..n |-> [c \in 1..num_classes |-> 0]],
      gt_box   |-> [m \in 1..n |-> ZeroBox] ]

Raised == [raised |-> TRUE, fg_mask |-> <<>>, gt_score |-> <<>>, gt_box |-> <<>>]

(* the results the assigner can return for one image.  Which candidates    *)
(* pass the top-k selection and with what alignment score depends on the   *)
(* metric, so every selection among the candidates is a possible result.   *)
(* With inputs that disagree on the anchor count it either raises or       *)
(* returns tensors over one of the counts it was given.                    *)
matcher(pd_scores, pd_bboxes, anc_points, gt_labels, gt_bboxes, num_classes) ==
    LET M == Len(anc_points)
        pick == { f \in [1..M -> UNION { AnchorChoices(anc_points[m], gt_bboxes) : m \in 1..M }] :
                    \A m \in 1..M : f[m] \in AnchorChoices(anc_points[m], gt_bboxes) }
    IN  IF Len(pd_scores) = M /\ Len(pd_bboxes) = M
        THEN { [ raised   |-> FALSE,
                 fg_mask  |-> [m \in 1..M |-> f[m].fg],
                 gt_score |-> [m \in 1..M |-> [c \in 1..num_classes |->
                                 IF f[m].fg /\ c = gt_labels[f[m].g] + 1 THEN f[m].s ELSE 0]],
                 gt_box   |-> [m \in 1..M |-> IF f[m].fg THEN gt_bboxes[f[m].g] ELSE ZeroBox] ] : f \in pick }
        ELSE { Raised } \cup { AllBackground(n, num_classes) : n \in {M, Len(pd_scores), Len(pd_bboxes)} }

(* ------------------------------ state --------------------------------- *)
VARIABLES
    self,        \* the Criterion object (__init__'s fields)
    world,       \* the process group: [initialized, size]
    outputs,     \* worker -> the outputs mapping of its call
    targets,     \* worker -> the targets list of its call
    frame,       \* worker -> the local variables of its call and where it is
    collective   \* worker -> what it handed to all_reduce (<<>>: nothing yet)

vars == <<self, world, outputs, targets, frame, collective>>

Workers == 1..world.size

NewFrame ==
    [ pc |-> "concat", err |-> Null,
      bs |-> 0, num_anchors |-> 0, anchors |-> <<>>,
      cls_preds |-> <<>>, reg_preds |-> <<>>, box_preds |-> <<>>,
      batch_idx |-> 0,
      fg_masks_list |-> <<>>, gt_score_list |-> <<>>, gt_bbox_list |-> <<>>,
      matcher_calls |-> <<>>,
      fg_masks |-> <<>>, gt_score_targets |-> <<>>, gt_bbox_targets |-> <<>>,
      num_fgs |-> Null, all_reduces |-> 0,
      loss_cls_el |-> <<>>, loss_cls |-> Null,
      bbox_weight |-> <<>>, loss_box_el |-> <<>>, loss_box |-> Null,
      dfl_run |-> FALSE, loss_dfl_el |-> <<>>, loss_dfl |-> Null,
      loss_dict |-> Null ]

(* one process, with no process group or in a group of its own: any       *)
(* shapes, any ground truth                                                *)
InitLocal ==
    /\ \E i \in BOOLEAN : world = [initialized |-> i, size |-> 1]
    /\ \E c \in ConfigChoices : self = CriterionInit(c, NumClasses)
    /\ \E bs \in 1..MaxBatch, sh \in ShapeChoices :
          /\ outputs = [w \in 1..1 |-> MakeOutputs(bs, sh.nAnc, sh.nCls, sh.nReg, sh.nBox)]
          /\ targets \in [1..1 -> [1..bs -> TargetChoices]]
    /\ frame = [w \in 1..1 |-> NewFrame]
    /\ collective = [w \in 1..1 |-> <<>>]

(* distributed training: every worker runs one call on its own one-image   *)
(* batch of well-formed predictions over two anchors                       *)
InitDist ==
    /\ \/ world = [initialized |-> FALSE, size |-> 1]
       \/ \E n \in 1..MaxWorkers : world = [initialized |-> TRUE, size |-> n]
    /\ \E c \in ConfigChoices : self = CriterionInit(c, NumClasses)
    /\ outputs = [w \in Workers |-> MakeOutputs(1, 2, 2, 2, 2)]
    /\ targets \in [Workers -> [1..1 -> DistTargetChoices]]
    /\ frame = [w \in Workers |-> NewFrame]
    /\ collective = [w \in Workers |-> <<>>]

Init == InitLocal

(* ----------------------- the steps of __call__ ------------------------ *)
(* tgt_boxs.max(): the largest coordinate of the image's boxes *)
MaxCoord(boxes) == SetMax({ boxes[g][k] : g \in 1..Len(boxes), k \in 1..4 })

(* "check target": len(tgt_labels) == 0 or tgt_boxs.max().item() == 0. *)
(* variant: tests the label count only *)
NoValidGt_LenOnly(tgt) == Len(tgt.labels) = 0

NoValidGt(tgt) == Len(tgt.labels) = 0 \/ MaxCoord(tgt.boxes) = 0

(* the assignment of one image: the zero tensors over num_anchors, or what *)
(* the assigner returns                                                    *)
AssignOne(tgt, cls_row, box_row, anchors, num_anchors, num_classes) ==
    IF NoValidGt(tgt)
    THEN { [called |-> FALSE, res |-> AllBackground(num_anchors, num_classes)] }
    ELSE { [called |-> TRUE, res |-> r] :
             r \in matcher(cls_row, box_row, anchors, tgt.labels, tgt.boxes, num_classes) }

(* torch.cat(pieces, 0).view(-1, ...) *)
Stacked(pieces) == CatDim0(pieces)

(* preds.view(-1, k): the rows of a [B, M, k] tensor, image after image *)
View(preds) == Flatten(preds)

(* num_fgs = gt_score_targets.sum() *)
NumFgs(gt_score_targets) ==
    Frac(SumSeq([i \in 1..Len(gt_score_targets) |-> SumSeq(gt_score_targets[i])]), ScoreOne)

(* torch.distributed.all_reduce(num_fgs): the sum over the workers *)
AllReduce(contrib, ws) == Frac(SumSeq([v \in 1..ws |-> contrib[v][1]]), ScoreOne)

(* num_fgs = (num_fgs / get_world_size()).clamp(1.0) *)
(* variant: no division by the world size *)
Normalizer_NoDivide(num_fgs, wd) ==
    IF num_fgs.num < num_fgs.den THEN Frac(num_fgs.den, num_fgs.den) ELSE num_fgs

(* variant: no lower clamp *)
Normalizer_NoClamp(num_fgs, wd) == Frac(num_fgs.num, num_fgs.den * get_world_size(wd))

Normalizer(num_fgs, wd) ==
    LET q == Frac(num_fgs.num, num_fgs.den * get_world_size(wd))
    IN  IF q.num < q.den THEN Frac(q.den, q.den) ELSE q

(* x.sum() / num_fgs *)
SumOverNumFgs(el, num_fgs) == Frac(SumSeq(el) * num_fgs.den, num_fgs.num)

(* loss_classes: the elementwise loss, one entry per row and class *)
loss_classes(pred_cls, gt_score) ==
    [i \in 1..Len(pred_cls) |-> [c \in 1..Len(gt_score[i]) |-> Bce(ClsLogit(pred_cls[i], c), gt_score[i][c])]]

(* loss_bboxes: (1 - ciou) * bbox_weight, one entry per selected row *)
loss_bboxes(pred_box, gt_box, bbox_weight) ==
    [k \in 1..Len(pred_box) |-> (100 - bbox_iou(PredBox(pred_box[k]), gt_box[k])) * bbox_weight[k]]

(* loss_dfl: the bin targets of one selected row *)
DflTargets(gt_box, anchor, stride, reg_max) ==
    LET gt_box_s == [k \in 1..4 |-> (100 * gt_box[k]) \div stride]
        anchor_s == [k \in 1..2 |-> (100 * anchor[k]) \div stride]
        gt_ltrb_s == bbox2dist(anchor_s, gt_box_s, reg_max - 1)
    IN  [k \in 1..4 |->
           LET gt_left == Trunc100(gt_ltrb_s[k])
               gt_right == gt_left + 1
               weight_left == 100 * gt_right - gt_ltrb_s[k]
           IN  [gt_left |-> gt_left, gt_right |-> gt_right,
                weight_left |-> weight_left, weight_right |-> 100 - weight_left]]

(* F.cross_entropy accepts the left and right bins of every selected row *)
DflTargetsOk(gt_box, anchor, stride, reg_max) ==
    \A i \in 1..Len(gt_box) : \A k \in 1..4 :
        LET t == DflTargets(gt_box[i], anchor[i], stride[i], reg_max)[k]
        IN  CrossEntropyOk(reg_max, t.gt_left) /\ CrossEntropyOk(reg_max, t.gt_right)

(* loss_dfl: (loss_left + loss_right).mean(-1) * bbox_weight per row *)
loss_dfl(pred_reg, gt_box, anchor, stride, bbox_weight, reg_max) ==
    [i \in 1..Len(pred_reg) |->
        LET t == DflTargets(gt_box[i], anchor[i], stride[i], reg_max)
            side(k) == CrossEntropy(pred_reg[i], k, reg_max, t[k].gt_left) * t[k].weight_left
                       + CrossEntropy(pred_reg[i], k, reg_max, t[k].gt_right) * t[k].weight_right
        IN  ((side(1) + side(2) + side(3) + side(4)) \div 400) * bbox_weight[i]]

(* "total loss": the returned mapping *)
(* variant: always carries the DFL term *)
LossDict_AlwaysDfl(obj, l_cls, l_box, l_dfl) ==
    [ loss_cls |-> l_cls, loss_box |-> l_box, loss_dfl |-> l_dfl,
      losses |-> FracAdd(FracAdd(FracScale(l_cls, obj.loss_cls_weight),
                                 FracScale(l_box, obj.loss_box_weight)),
                         FracScale(l_dfl, obj.loss_dfl_weight)) ]

LossDict(obj, l_cls, l_box, l_dfl) ==
    IF ~obj.use_dfl
    THEN [ loss_cls |-> l_cls, loss_box |-> l_box,
           losses |-> FracAdd(FracScale(l_cls, obj.loss_cls_weight), FracScale(l_box, obj.loss_box_weight)) ]
    ELSE [ loss_cls |-> l_cls, loss_box |-> l_box, loss_dfl |-> l_dfl,
           losses |-> FracAdd(FracAdd(FracScale(l_cls, obj.loss_cls_weight),
                                      FracScale(l_box, obj.loss_box_weight)),
                              FracScale(l_dfl, obj.loss_dfl_weight)) ]

(* ------------------------------ actions ------------------------------- *)
Raise(f, why) == [f EXCEPT !.pc = "raised", !.err = why]

(* bs, anchors, num_anchors and the concatenated predictions *)
Concat(w) ==
    /\ frame[w].pc = "concat"
    /\ frame' = [frame EXCEPT ![w] =
          [@ EXCEPT !.pc = "assign",
                    !.bs = Len(outputs[w].pred_cls[1]),
                    !.anchors = CatDim0(outputs[w].anchors),
                    !.num_anchors = Len(CatDim0(outputs[w].anchors)),
                    !.cls_preds = CatDim1(outputs[w].pred_cls),
                    !.reg_preds = CatDim1(outputs[w].pred_reg),
                    !.box_preds = CatDim1(outputs[w].pred_box)]]
    /\ UNCHANGED <<self, world, outputs, targets, collective>>

(* one pass of the loop over the batch: the image's assignment is appended *)
(* to the three lists; after the last image the loop ends                  *)
AssignImage(w) ==
    LET f == frame[w]
        b == f.batch_idx + 1
    IN  /\ f.pc = "assign"
        /\ f.batch_idx < f.bs
        /\ \E a \in AssignOne(targets[w][b], f.cls_preds[b], f.box_preds[b],
                               f.anchors, f.num_anchors, self.num_classes) :
              frame' = [frame EXCEPT ![w] =
                IF a.res.raised
                THEN Raise([f EXCEPT !.matcher_calls = Append(@, a.called)], "matcher")
                ELSE [f EXCEPT !.pc = IF b = f.bs THEN "stack" ELSE "assign",
                               !.batch_idx = b,
                               !.matcher_calls = Append(@, a.called),
                               !.gt_score_list = Append(@, a.res.gt_score),
                               !.gt_bbox_list = Append(@, a.res.gt_box),
                               !.fg_masks_list = Append(@, a.res.fg_mask)]]
        /\ UNCHANGED <<self, world, outputs, targets, collective>>

(* the lists become flat tensors; the local sum of the target scores *)
Stack(w) ==
    LET f == frame[w]
    IN  /\ f.pc = "stack"
        /\ frame' = [frame EXCEPT ![w] =
              IF ~(CatDim0Ok(f.fg_masks_list) /\ CatDim0Ok(f.gt_score_list) /\ CatDim0Ok(f.gt_bbox_list))
              THEN Raise(f, "cat")
              ELSE [f EXCEPT !.pc = "reduce",
                             !.fg_masks = Stacked(f.fg_masks_list),
                             !.gt_score_targets = Stacked(f.gt_score_list),
                             !.gt_bbox_targets = Stacked(f.gt_bbox_list),
                             !.num_fgs = NumFgs(Stacked(f.gt_score_list))]]
        /\ UNCHANGED <<self, world, outputs, targets, collective>>

(* if is_dist_avail_and_initialized(): enter the collective sum *)
Reduce(w) ==
    LET f == frame[w]
    IN  /\ f.pc = "reduce"
        /\ IF is_dist_avail_and_initialized(world)
           THEN /\ collective' = [collective EXCEPT ![w] = <<f.num_fgs.num>>]
                /\ frame' = [frame EXCEPT ![w] = [f EXCEPT !.pc = "all_reduce", !.all_reduces = @ + 1]]
           ELSE /\ frame' = [frame EXCEPT ![w] = [f EXCEPT !.pc = "normalize"]]
                /\ UNCHANGED collective
        /\ UNCHANGED <<self, world, outputs, targets>>

(* all_reduce returns on a worker once every worker has entered it *)
AllReduceReturn(w) ==
    LET f == frame[w]
    IN  /\ f.pc = "all_reduce"
        /\ \A v \in Workers : collective[v] # <<>>
        /\ frame' = [frame EXCEPT ![w] =
              [f EXCEPT !.pc = "normalize", !.num_fgs = AllReduce(collective, world.size)]]
        /\ UNCHANGED <<self, world, outputs, targets, collective>>

Normalize(w) ==
    LET f == frame[w]
    IN  /\ f.pc = "normalize"
        /\ frame' = [frame EXCEPT ![w] =
              [f EXCEPT !.pc = "loss_cls", !.num_fgs = Normalizer(f.num_fgs, world)]]
        /\ UNCHANGED <<self, world, outputs, targets, collective>>

(* "Classification loss" *)
LossCls(w) ==
    LET f == frame[w]
        cls_flat == View(f.cls_preds)
    IN  /\ f.pc = "loss_cls"
        /\ frame' = [frame EXCEPT ![w] =
              IF ~BceShapeOk(cls_flat, f.gt_score_targets)
              THEN Raise(f, "bce_size")
              ELSE [f EXCEPT !.pc = "loss_box",
                             !.loss_cls_el = loss_classes(cls_flat, f.gt_score_targets),
                             !.loss_cls = SumOverNumFgs(Flatten(loss_classes(cls_flat, f.gt_score_targets)), f.num_fgs)]]
        /\ UNCHANGED <<self, world, outputs, targets, collective>>

(* "Regression loss" *)
LossBox(w) ==
    LET f == frame[w]
        box_flat == View(f.box_preds)
        box_preds_pos == MaskSelect(box_flat, f.fg_masks)
        box_targets_pos == MaskSelect(f.gt_bbox_targets, f.fg_masks)
        score_pos == MaskSelect(f.gt_score_targets, f.fg_masks)
        bbox_weight == [k \in 1..Len(score_pos) |-> SumSeq(score_pos[k])]
        el == loss_bboxes(box_preds_pos, box_targets_pos, bbox_weight)
    IN  /\ f.pc = "loss_box"
        /\ frame' = [frame EXCEPT ![w] =
              IF ~MaskOk(box_flat, f.fg_masks)
              THEN Raise(f, "mask_size")
              ELSE [f EXCEPT !.pc = "loss_dfl",
                             !.bbox_weight = bbox_weight,
                             !.loss_box_el = el,
                             !.loss_box = SumOverNumFgs(el, f.num_fgs)]]
        /\ UNCHANGED <<self, world, outputs, targets, collective>>

(* "Distribution focal loss" *)
LossDfl(w) ==
    LET f == frame[w]
        anchors == RepeatBatch(CatDim0(outputs[w].anchors), f.bs)
        strides == RepeatBatch(CatDim0(outputs[w].stride_tensor), f.bs)
        reg_flat == View(f.reg_preds)
        reg_preds_pos == MaskSelect(reg_flat, f.fg_masks)
        box_targets_pos == MaskSelect(f.gt_bbox_targets, f.fg_masks)
        anchors_pos == MaskSelect(anchors, f.fg_masks)
        strides_pos == MaskSelect(strides, f.fg_masks)
        el == loss_dfl(reg_preds_pos, box_targets_pos, anchors_pos, strides_pos, f.bbox_weight, self.reg_max)
    IN  /\ f.pc = "loss_dfl"
        /\ frame' = [frame EXCEPT ![w] =
              IF ~(MaskOk(reg_flat, f.fg_masks) /\ MaskOk(anchors, f.fg_masks) /\ MaskOk(strides, f.fg_masks))
              THEN Raise(f, "mask_size")
              ELSE IF ~DflTargetsOk(box_targets_pos, anchors_pos, strides_pos, self.reg_max)
              THEN Raise([f EXCEPT !.dfl_run = TRUE], "ce_target")
              ELSE [f EXCEPT !.pc = "total",
                             !.dfl_run = TRUE,
                             !.loss_dfl_el = el,
                             !.loss_dfl = SumOverNumFgs(el, f.num_fgs)]]
        /\ UNCHANGED <<self, world, outputs, targets, collective>>

(* "total loss" and the return *)
Total(w) ==
    LET f == frame[w]
    IN  /\ f.pc = "total"
        /\ frame' = [frame EXCEPT ![w] =
              [f EXCEPT !.pc = "done", !.loss_dict = LossDict(self, f.loss_cls, f.loss_box, f.loss_dfl)]]
        /\ UNCHANGED <<self, world, outputs, targets, collective>>

Step(w) ==
    \/ Concat(w)
    \/ AssignImage(w)
    \/ Stack(w)
    \/ Reduce(w)
    \/ AllReduceReturn(w)
    \/ Normalize(w)
    \/ LossCls(w)
    \/ LossBox(w)
    \/ LossDfl(w)
    \/ Total(w)

Next ==
    \/ \E w \in Workers : Concat(w)
    \/ \E w \in Workers : AssignImage(w)
    \/ \E w \in Workers : Stack(w)
    \/ \E w \in Workers : Reduce(w)
    \/ \E w \in Workers : AllReduceReturn(w)
    \/ \E w \in Workers : Normalize(w)
    \/ \E w \in Workers : LossCls(w)
    \/ \E w \in Workers : LossBox(w)
    \/ \E w \in Workers : LossDfl(w)
    \/ \E w \in Workers : Total(w)

(* one call of one process *)
Spec == Init /\ [][Next]_vars

(* every worker is a process of its own that runs whenever it can *)
Fairness == \A w \in 1..MaxWorkers : WF_vars(w \in Workers /\ Step(w))
(* one call on each worker of a training run *)
DistSpec == InitDist /\ [][Next]_vars /\ Fairness

(* ====================== the claims, checked ============================ *)
AfterStack == {"reduce", "all_reduce", "normalize", "loss_cls", "loss_box", "loss_dfl", "total", "done"}
AfterNormalize == {"loss_cls", "loss_box", "loss_dfl", "total", "done"}
AfterLossCls == {"loss_box", "loss_dfl", "total", "done"}
AfterLossBox == {"loss_dfl", "total", "done"}
AfterLossDfl == {"total", "done"}

(* the flat positions (1-based) a mask marks, and the k-th of them *)
TruePositions(mask) == { i \in 1..Len(mask) : mask[i] }
KthTrue(mask, k) == CHOOSE i \in TruePositions(mask) : Cardinality({ j \in TruePositions(mask) : j <= i }) = k
(* the rows per image of a list of per-scale tensors, and per-scale points *)
RowsPerImage(ts) == SumSeq([k \in 1..Len(ts) |-> Len(ts[k][1])])
PointCount(ts) == SumSeq([k \in 1..Len(ts) |-> Len(ts[k])])
WellShaped(w) ==
    /\ RowsPerImage(outputs[w].pred_cls) = PointCount(outputs[w].anchors)
    /\ RowsPerImage(outputs[w].pred_reg) = PointCount(outputs[w].anchors)
    /\ RowsPerImage(outputs[w].pred_box) = PointCount(outputs[w].anchors)
EveryImageEmpty(w) == \A b \in 1..Len(targets[w]) : Len(targets[w][b].labels) = 0
AllCoordsZero(boxes) == \A g \in 1..Len(boxes) : \A k \in 1..4 : boxes[g][k] = 0
LargestCoordIsZero(boxes) ==
    /\ \A g \in 1..Len(boxes) : \A k \in 1..4 : boxes[g][k] <= 0
    /\ \E g \in 1..Len(boxes) : \E k \in 1..4 : boxes[g][k] = 0
ScoreMass(scores) == SumSeq([i \in 1..Len(scores) |-> SumSeq(scores[i])])

(* C1: on a batch whose every image has zero labels, the stacked           *)
(* foreground mask is false at every anchor of every image, every          *)
(* classification target is zero, and the box loss and the distribution    *)
(* focal loss the call computes and returns are exactly zero.              *)
C1_EmptyBatchAllBackground ==
    \A w \in Workers :
        LET f == frame[w]
        IN  EveryImageEmpty(w) =>
              /\ f.pc \in AfterStack =>
                   /\ Len(f.fg_masks) = f.bs * f.num_anchors
                   /\ Len(f.gt_score_targets) = f.bs * f.num_anchors
                   /\ \A i \in 1..Len(f.fg_masks) : ~f.fg_masks[i]
                   /\ \A i \in 1..Len(f.gt_score_targets) :
                        \A c \in 1..self.num_classes : f.gt_score_targets[i][c] = 0
              /\ f.pc \in AfterLossBox => FracIsZero(f.loss_box)
              /\ f.pc \in AfterLossDfl => FracIsZero(f.loss_dfl)
              /\ f.pc = "done" =>
                   /\ FracIsZero(f.loss_dict.loss_box)
                   /\ "loss_dfl" \in DOMAIN f.loss_dict => FracIsZero(f.loss_dict.loss_dfl)

C1_Witness ==
    \E w \in Workers :
        /\ EveryImageEmpty(w)
        /\ frame[w].pc = "done"
        /\ frame[w].bs = 2
        /\ frame[w].num_anchors = 2
        /\ "loss_dfl" \in DOMAIN frame[w].loss_dict
        /\ ~FracIsZero(frame[w].loss_dict.loss_cls)

(* C2: on predictions and anchors of one anchor count,                     *)
(* the classification loss has one term per (image, anchor, class);        *)
(* the box loss and the distribution focal loss have one term per anchor   *)
(* whose foreground mask is true, in flat order, each the unweighted term  *)
(* of that anchor times the sum of its target scores over the classes; an  *)
(* anchor whose mask is false has no term.                                 *)
C2_LossTerms ==
    \A w \in Workers :
        LET f == frame[w]
            n == Cardinality(TruePositions(f.fg_masks))
            weight(i) == SumSeq(f.gt_score_targets[i])
            anchor(i) == AnchorPoint(((i - 1) % f.num_anchors) + 1)
            stride(i) == Stride(((i - 1) % f.num_anchors) + 1)
        IN  WellShaped(w) =>
            /\ f.pc \in AfterLossCls =>
                /\ Len(f.loss_cls_el) = f.bs * f.num_anchors
                /\ \A i \in 1..Len(f.loss_cls_el) : Len(f.loss_cls_el[i]) = self.num_classes
                /\ FracEq(f.loss_cls, Frac(ScoreMass(f.loss_cls_el) * f.num_fgs.den, f.num_fgs.num))
            /\ f.pc \in AfterLossBox =>
                /\ Len(f.loss_box_el) = n
                /\ \A k \in 1..n :
                     LET i == KthTrue(f.fg_masks, k)
                     IN  f.loss_box_el[k] =
                           (100 - bbox_iou(PredBox(View(f.box_preds)[i]), f.gt_bbox_targets[i])) * weight(i)
                /\ FracEq(f.loss_box, Frac(SumSeq(f.loss_box_el) * f.num_fgs.den, f.num_fgs.num))
            /\ f.pc \in AfterLossDfl =>
                /\ Len(f.loss_dfl_el) = n
                /\ \A k \in 1..n :
                     LET i == KthTrue(f.fg_masks, k)
                     IN  f.loss_dfl_el[k] =
                           loss_dfl(<<View(f.reg_preds)[i]>>, <<f.gt_bbox_targets[i]>>, <<anchor(i)>>,
                                    <<stride(i)>>, <<1>>, self.reg_max)[1] * weight(i)
                /\ FracEq(f.loss_dfl, Frac(SumSeq(f.loss_dfl_el) * f.num_fgs.den, f.num_fgs.num))

C2_Witness ==
    \E w \in Workers :
        /\ frame[w].pc = "done"
        /\ frame[w].fg_masks = <<FALSE, TRUE, TRUE, FALSE>>
        /\ Len(frame[w].loss_cls_el) = 4
        /\ Len(frame[w].loss_box_el) = 2
        /\ Len(frame[w].loss_dfl_el) = 2
        /\ frame[w].bbox_weight = <<1, ScoreOne>>
        /\ ~FracIsZero(frame[w].loss_dfl)

(* C3 as stated: an image bypasses the assigner exactly when it has zero   *)
(* labels or all of its box coordinates are exactly zero.                  *)
C3_BypassIffAllZero ==
    \A w \in Workers : \A b \in 1..Len(frame[w].matcher_calls) :
        (~frame[w].matcher_calls[b]) <=>
            (Len(targets[w][b].labels) = 0 \/ AllCoordsZero(targets[w][b].boxes))

(* C3 as amended: every image the loop reaches is decided once; it         *)
(* bypasses the assigner, with all-background results over the anchor      *)
(* points, exactly when it has zero labels or the largest of its box       *)
(* coordinates is exactly zero; the assigner is never invoked with no      *)
(* ground truth or with only all-zero boxes.                               *)
C3_BypassIffLargestZero ==
    \A w \in Workers :
        LET f == frame[w]
        IN  /\ Len(f.matcher_calls) = f.batch_idx + (IF f.err = "matcher" THEN 1 ELSE 0)
            /\ \A b \in 1..Len(f.matcher_calls) :
                 /\ (~f.matcher_calls[b]) <=>
                      (Len(targets[w][b].labels) = 0 \/ LargestCoordIsZero(targets[w][b].boxes))
                 /\ f.matcher_calls[b] =>
                      (Len(targets[w][b].labels) >= 1 /\ ~AllCoordsZero(targets[w][b].boxes))
                 /\ ~f.matcher_calls[b] =>
                      /\ f.fg_masks_list[b] = [m \in 1..f.num_anchors |-> FALSE]
                      /\ f.gt_score_list[b] = [m \in 1..f.num_anchors |-> [c \in 1..self.num_classes |-> 0]]
                      /\ f.gt_bbox_list[b] = [m \in 1..f.num_anchors |-> ZeroBox]

C3_Witness ==
    \E w \in Workers :
        /\ frame[w].matcher_calls = <<FALSE, TRUE>>
        /\ targets[w][1].boxes = <<NegBox>>
        /\ targets[w][2].boxes = <<ZeroBox, RealBox>>
        /\ frame[w].pc = "stack"

(* C4: in a training run, once no worker can take a step every worker has  *)
(* made the collective sum exactly once and has returned its loss mapping. *)
C4_EveryWorkerReturns ==
    (world.initialized /\ ~ENABLED Next) =>
        \A w \in Workers : frame[w].pc = "done" /\ frame[w].all_reduces = 1

(* C5 as stated: the normalizer of every worker is the sum over the        *)
(* workers of their foreground counts, divided by the worker count         *)
(* (floored at 1.0).                                                       *)
C5_NormalizerFromFgCounts ==
    \A w \in Workers :
        (world.initialized /\ frame[w].pc \in AfterNormalize) =>
            LET count == SumSeq([v \in 1..world.size |-> Cardinality(TruePositions(frame[v].fg_masks))])
            IN  FracEq(frame[w].num_fgs, Frac(Max2(count, world.size), world.size))

(* C5 as amended: the normalizer of every worker is the sum over the       *)
(* workers of their local target-score totals, divided by the worker       *)
(* count and floored at 1.0; it is the same on all workers, and it is what *)
(* the worker's classification sum is divided by.                          *)
C5_NormalizerFromScoreTotals ==
    \A w \in Workers :
        (world.initialized /\ frame[w].pc \in AfterNormalize) =>
            LET total == SumSeq([v \in 1..world.size |-> ScoreMass(frame[v].gt_score_targets)])
                den == ScoreOne * world.size
                expected == Frac(Max2(total, den), den)
            IN  /\ FracEq(frame[w].num_fgs, expected)
                /\ \A v \in Workers : frame[v].pc \in AfterNormalize => FracEq(frame[v].num_fgs, frame[w].num_fgs)
                /\ frame[w].pc \in AfterLossCls =>
                     FracEq(frame[w].loss_cls, Frac(ScoreMass(frame[w].loss_cls_el) * expected.den, expected.num))

C5_Witness ==
    /\ world.initialized
    /\ world.size = 2
    /\ \A w \in Workers : frame[w].pc \in AfterLossCls
    /\ ScoreMass(frame[1].gt_score_targets) = 2 * ScoreOne
    /\ ScoreMass(frame[2].gt_score_targets) = ScoreOne
    /\ \A w \in Workers : FracEq(frame[w].num_fgs, Frac(3, 2))

(* C6: the normalizer the three sums are divided by is at least 1.0, with  *)
(* or without a process group, for every world size and every number of    *)
(* foreground anchors.                                                     *)
C6_NormalizerAtLeastOne ==
    \A w \in Workers :
        frame[w].pc \in AfterNormalize =>
            /\ frame[w].num_fgs.den > 0
            /\ frame[w].num_fgs.num >= frame[w].num_fgs.den

C6_Witness ==
    /\ world.initialized
    /\ world.size = 2
    /\ \A w \in Workers : frame[w].pc = "done" /\ ScoreMass(frame[w].gt_score_targets) = 0
    /\ FracEq(frame[1].num_fgs, Frac(1, 1))

(* C7: a returned mapping holds the classification loss, the box loss and  *)
(* the total; it holds the distribution focal loss exactly when            *)
(* reg_max > 1; the total is the sum of the components it holds, each      *)
(* times its configured weight.                                            *)
C7_ReturnedMapping ==
    \A w \in Workers :
        LET f == frame[w]
            d == f.loss_dict
            two == FracAdd(FracScale(d.loss_cls, self.loss_cls_weight), FracScale(d.loss_box, self.loss_box_weight))
        IN  f.pc = "done" =>
              /\ {"loss_cls", "loss_box", "losses"} \subseteq DOMAIN d
              /\ DOMAIN d \subseteq {"loss_cls", "loss_box", "loss_dfl", "losses"}
              /\ ("loss_dfl" \in DOMAIN d) <=> (self.reg_max > 1)
              /\ d.loss_cls = f.loss_cls
              /\ d.loss_box = f.loss_box
              /\ "loss_dfl" \in DOMAIN d => d.loss_dfl = f.loss_dfl
              /\ IF "loss_dfl" \in DOMAIN d
                 THEN FracEq(d.losses, FracAdd(two, FracScale(d.loss_dfl, self.loss_dfl_weight)))
                 ELSE FracEq(d.losses, two)

C7_Witness ==
    \E w \in Workers :
        /\ frame[w].pc = "done"
        /\ self.reg_max = 1
        /\ DOMAIN frame[w].loss_dict = {"loss_cls", "loss_box", "losses"}
        /\ ~FracIsZero(frame[w].loss_dict.losses)

(* C8: with reg_max <= 1 a call does not run the distribution focal loss   *)
(* step, and that step does not end the call in an error.                  *)
C8_DflOnlyIfEnabled ==
    \A w \in Workers :
        self.reg_max <= 1 => (~frame[w].dfl_run /\ frame[w].err # "ce_target")

(* the call has a next step to take *)
Running(w) ==
    \/ frame[w].pc \in {"concat", "stack", "reduce", "normalize", "loss_cls", "loss_box", "loss_dfl", "total"}
    \/ frame[w].pc = "assign" /\ frame[w].batch_idx < frame[w].bs
    \/ frame[w].pc = "all_reduce" /\ \A v \in Workers : collective[v] # <<>>

(* C9: when the rows per image of the class logits, the regression         *)
(* distributions or the decoded boxes differ in number from the anchor     *)
(* points, the call never reaches its return (on the assigner path and on  *)
(* the bypass path alike), and it stops only by raising an error.          *)
C9_ShapeMismatchIsFatal ==
    \A w \in Workers :
        ~WellShaped(w) =>
            /\ frame[w].pc \notin {"total", "done"}
            /\ frame[w].pc = "raised" \/ Running(w)
            /\ frame[w].pc = "raised" => frame[w].err \in {"matcher", "cat", "bce_size", "mask_size"}

C9_Witness ==
    \E w \in Workers :
        /\ ~WellShaped(w)
        /\ frame[w].pc = "raised"
        /\ frame[w].matcher_calls = <<FALSE, TRUE>>
        /\ frame[w].err = "bce_size"

(* C10: for B images over M anchors, position b*M + m of the stacked       *)
(* foreground mask, target scores and target boxes is the assignment of    *)
(* image b at anchor m; the same position of the flattened predictions is  *)
(* image b's row at anchor m, and of the repeated anchors and strides      *)
(* anchor m's point and stride.                                            *)
C10_StackingKeepsOrder ==
    \A w \in Workers :
        LET f == frame[w]
            M == f.num_anchors
        IN  (WellShaped(w) /\ f.pc \in AfterStack) =>
              \A b \in 0..(f.bs - 1) : \A m \in 0..(M - 1) :
                 LET i == b * M + m + 1
                 IN  /\ f.fg_masks[i] = f.fg_masks_list[b + 1][m + 1]
                     /\ f.gt_score_targets[i] = f.gt_score_list[b + 1][m + 1]
                     /\ f.gt_bbox_targets[i] = f.gt_bbox_list[b + 1][m + 1]
                     /\ View(f.cls_preds)[i] = <<b + 1, m + 1>>
                     /\ View(f.box_preds)[i] = <<b + 1, m + 1>>
                     /\ View(f.reg_preds)[i] = <<b + 1, m + 1>>
                     /\ RepeatBatch(CatDim0(outputs[w].anchors), f.bs)[i] = AnchorPoint(m + 1)
                     /\ RepeatBatch(CatDim0(outputs[w].stride_tensor), f.bs)[i] = Stride(m + 1)

C10_Witness ==
    \E w \in Workers :
        /\ WellShaped(w)
        /\ frame[w].pc = "done"
        /\ frame[w].bs = 2
        /\ frame[w].num_anchors = 2
        /\ frame[w].fg_masks = <<TRUE, FALSE, FALSE, TRUE>>
        /\ frame[w].gt_score_targets[1] # frame[w].gt_score_targets[4]
====
